---- MODULE Spec2Model ----
(* A model of aiohttp/signals.py: class Signal, a list of receivers bound   *)
(* to a frozen set of parameter names, with list-style mutation and the     *)
(* coroutine send(), which calls every receiver and delegates (yield from)  *)
(* to what the call returns.                                                *)
EXTENDS Integers, Sequences, FiniteSets, TLC

(***************************************************************************)
(* Bounds                                                                  *)
(***************************************************************************)
MaxLen == 3
NumSends == 2

(***************************************************************************)
(* The values the callers supply                                           *)
(***************************************************************************)
\* Parameter sets a Signal is constructed with (Signal.__init__'s argument).
ParamChoices == {{"name"}, {"name", "value"}}

\* The callables offered for registration.  What the registration code reads
\* of a callable is asyncio.iscoroutinefunction(receiver) and
\* inspect.signature(receiver): the parameters that can be passed by keyword
\* (named), those among them without a default (required), and whether the
\* callable declares **kwargs (varkw).
\*   A   def a(name, value)          B   def b(name)
\*   K   def k( **kwargs)            D   def d(name=None, value=None, *, extra)
\*   CA  coroutine function (name, value)
\*   CB  coroutine function (name)
Callables == {"A", "B", "K", "D", "CA", "CB"}

iscoroutinefunction(r) == r \in {"CA", "CB"}

Named(r) ==
    CASE r \in {"A", "CA"} -> {"name", "value"}
      [] r \in {"B", "CB"} -> {"name"}
      [] r = "K" -> {}
      [] r = "D" -> {"name", "value", "extra"}

Required(r) ==
    CASE r \in {"A", "CA"} -> {"name", "value"}
      [] r \in {"B", "CB"} -> {"name"}
      [] r = "K" -> {}
      [] r = "D" -> {"extra"}

VarKw(r) == r = "K"

\* Keyword arguments a caller passes to send( **kwargs).
KwChoices ==
    { [name |-> "x", value |-> "1"],
      [name |-> "y"] }

\* Exceptions a receiver's body raises.
Excs == {"E1", "E2"}

\* Indexes the callers pass: Python accepts negative ones.
Indexes == (0 - (MaxLen + 1)) .. (MaxLen + 1)

SendIds == 1 .. NumSends

NoReceiver == "-"

VARIABLES
    parameters,   \* self._parameters
    receivers,    \* self._receivers (receivers[k+1] is Python's index k)
    debug,        \* __debug__ of the build: FALSE under python -O
    last,         \* the outcome of the latest list operation
    net,          \* successful insertions minus removals so far
    sends         \* the send() coroutines: one record per call

vars == <<parameters, receivers, debug, last, net, sends>>

(***************************************************************************)
(* inspect.signature(receiver).bind( **{p: None for p in names})            *)
(***************************************************************************)
\* Signature.bind walks the declared parameters, taking each from the keyword
\* arguments; a parameter that is absent and has no default is a TypeError
\* (missing argument), and keyword arguments left over when the callable has
\* no **kwargs are a TypeError (unexpected keyword argument).
BindNoRequired(r, names) ==
    LET leftover == names \ Named(r)
    IN  leftover # {} => VarKw(r)

Bind(r, names) ==
    LET missing == {p \in Required(r) : p \notin names}
        leftover == names \ Named(r)
    IN  /\ missing = {}
        /\ leftover # {} => VarKw(r)

\* The checks ahead of the store in __setitem__, insert and append:
\*     assert not asyncio.iscoroutinefunction(receiver), receiver
\*     if __debug__:
\*         signature(receiver).bind( **{p: None for p in self._parameters})
\* python -O compiles the assert statement away and makes __debug__ False.
CheckNoAssert(dbg, params, r) ==
    IF dbg /\ ~Bind(r, params) THEN "TypeError" ELSE "ok"

CheckReceiver(dbg, params, r) ==
    IF dbg /\ iscoroutinefunction(r) THEN "AssertionError"
    ELSE IF dbg /\ ~Bind(r, params) THEN "TypeError"
    ELSE "ok"

(***************************************************************************)
(* The Python list self._receivers                                         *)
(***************************************************************************)
Min(a, b) == IF a < b THEN a ELSE b
Max(a, b) == IF a > b THEN a ELSE b

\* list[index]: index in -len .. len-1, negative ones counted from the end.
ValidIndex(seq, i) == (0 - Len(seq)) <= i /\ i < Len(seq)
NormIndex(seq, i) == IF i < 0 THEN i + Len(seq) ELSE i

\* list.insert(index, x) clamps the index into 0 .. len.
InsertPos(seq, i) ==
    IF i < 0 THEN Max(i + Len(seq), 0) ELSE Min(i, Len(seq))

ListInsertAfter(seq, i, x) ==
    LET p == Min(InsertPos(seq, i) + 1, Len(seq))
    IN  [k \in 1 .. Len(seq) + 1 |->
            IF k <= p THEN seq[k] ELSE IF k = p + 1 THEN x ELSE seq[k - 1]]

ListInsert(seq, i, x) ==
    LET p == InsertPos(seq, i)
    IN  [k \in 1 .. Len(seq) + 1 |->
            IF k <= p THEN seq[k] ELSE IF k = p + 1 THEN x ELSE seq[k - 1]]

ListAppend(seq, x) ==
    [k \in 1 .. Len(seq) + 1 |-> IF k = Len(seq) + 1 THEN x ELSE seq[k]]

ListSetItemNext(seq, i, x) ==
    [seq EXCEPT ![NormIndex(seq, i) + 2] = x]

ListSetItem(seq, i, x) ==
    [seq EXCEPT ![NormIndex(seq, i) + 1] = x]

ListDelItem(seq, i) ==
    LET p == NormIndex(seq, i)
    IN  [k \in 1 .. Len(seq) - 1 |-> IF k <= p THEN seq[k] ELSE seq[k + 1]]

\* iter(list): the list iterator holds a position and yields list[position]
\* while position < len(list).
RECURSIVE IterFrom(_, _)
IterFrom(seq, pos) ==
    IF pos < Len(seq) THEN <<seq[pos + 1]>> \o IterFrom(seq, pos + 1) ELSE <<>>

Iter(seq) == IterFrom(seq, 0)

\* reversed(list): the reverse iterator starts at len-1 and counts down.
RECURSIVE ReversedFrom(_, _)
ReversedFrom(seq, pos) ==
    IF pos >= 0 /\ pos < Len(seq)
    THEN <<seq[pos + 1]>> \o ReversedFrom(seq, pos - 1)
    ELSE <<>>

Reversed(seq) == ReversedFrom(seq, Len(seq) - 1)

Contains(seq, x) == \E k \in 1 .. Len(seq) : seq[k] = x

(***************************************************************************)
(* State after Signal(parameters)                                          *)
(***************************************************************************)
NoKwargs == [n \in {} |-> ""]

NewSend ==
    [pc |-> "new", it |-> 0, kwargs |-> NoKwargs, calls |-> <<>>,
     err |-> "none", mutated |-> FALSE]

Init ==
    /\ parameters \in ParamChoices
    /\ debug \in BOOLEAN
    /\ receivers = <<>>
    /\ last = [op |-> "init", index |-> 0, receiver |-> NoReceiver,
               result |-> "ok", value |-> NoReceiver]
    /\ net = 0
    /\ sends = [s \in SendIds |-> NewSend]

\* asyncio runs one coroutine at a time: while a send() is between two
\* suspension points no other code of the program runs.
Running == \E s \in SendIds : sends[s].pc = "running"

InFlight(s) == sends[s].pc \in {"running", "suspended"}

\* A list operation made while a send() is suspended happens during that send.
MarkMutated ==
    [s \in SendIds |->
        IF InFlight(s) THEN [sends[s] EXCEPT !.mutated = TRUE] ELSE sends[s]]

Outcome(op, i, r, res, val) ==
    [op |-> op, index |-> i, receiver |-> r, result |-> res, value |-> val]

(***************************************************************************)
(* The list operations                                                     *)
(***************************************************************************)
\* A failed operation raises before the store and changes nothing.
Raise(op, i, r, res) ==
    /\ last' = Outcome(op, i, r, res, NoReceiver)
    /\ UNCHANGED <<receivers, net, sends>>

__getitem__(i) ==
    /\ ~Running
    /\ IF ValidIndex(receivers, i)
       THEN last' = Outcome("getitem", i, NoReceiver, "ok",
                            receivers[NormIndex(receivers, i) + 1])
       ELSE last' = Outcome("getitem", i, NoReceiver, "IndexError", NoReceiver)
    /\ UNCHANGED <<parameters, debug, receivers, net, sends>>

__setitem__(i, r) ==
    /\ ~Running
    /\ LET res == CheckReceiver(debug, parameters, r)
       IN  IF res # "ok" THEN Raise("setitem", i, r, res)
           ELSE IF ~ValidIndex(receivers, i)
           THEN Raise("setitem", i, r, "IndexError")
           ELSE /\ receivers' = ListSetItem(receivers, i, r)
                /\ last' = Outcome("setitem", i, r, "ok", NoReceiver)
                /\ sends' = MarkMutated
                /\ UNCHANGED net
    /\ UNCHANGED <<parameters, debug>>

delitem_silent(i) ==
    /\ ~Running
    /\ IF ~ValidIndex(receivers, i)
       THEN /\ last' = Outcome("delitem", i, NoReceiver, "ok", NoReceiver)
            /\ UNCHANGED <<receivers, net, sends>>
       ELSE /\ receivers' = ListDelItem(receivers, i)
            /\ last' = Outcome("delitem", i, NoReceiver, "ok", NoReceiver)
            /\ net' = net - 1
            /\ sends' = MarkMutated
    /\ UNCHANGED <<parameters, debug>>

__delitem__(i) ==
    /\ ~Running
    /\ IF ~ValidIndex(receivers, i)
       THEN Raise("delitem", i, NoReceiver, "IndexError")
       ELSE /\ receivers' = ListDelItem(receivers, i)
            /\ last' = Outcome("delitem", i, NoReceiver, "ok", NoReceiver)
            /\ net' = net - 1
            /\ sends' = MarkMutated
    /\ UNCHANGED <<parameters, debug>>

insert_store_first(i, r) ==
    /\ ~Running
    /\ Len(receivers) < MaxLen
    /\ receivers' = ListInsert(receivers, i, r)
    /\ net' = net + 1
    /\ sends' = MarkMutated
    /\ last' = Outcome("insert", i, r, CheckReceiver(debug, parameters, r),
                       NoReceiver)
    /\ UNCHANGED <<parameters, debug>>

insert(i, r) ==
    /\ ~Running
    /\ LET res == CheckReceiver(debug, parameters, r)
       IN  IF res # "ok" THEN Raise("insert", i, r, res)
           ELSE /\ Len(receivers) < MaxLen
                /\ receivers' = ListInsert(receivers, i, r)
                /\ last' = Outcome("insert", i, r, "ok", NoReceiver)
                /\ net' = net + 1
                /\ sends' = MarkMutated
    /\ UNCHANGED <<parameters, debug>>

append_widening(r) ==
    /\ ~Running
    /\ LET res == CheckReceiver(debug, parameters, r)
       IN  IF res # "ok"
           THEN /\ Raise("append", 0, r, res)
                /\ parameters' = parameters \cup Required(r)
           ELSE /\ Len(receivers) < MaxLen
                /\ receivers' = ListAppend(receivers, r)
                /\ last' = Outcome("append", 0, r, "ok", NoReceiver)
                /\ net' = net + 1
                /\ sends' = MarkMutated
                /\ UNCHANGED parameters
    /\ UNCHANGED debug

append(r) ==
    /\ ~Running
    /\ LET res == CheckReceiver(debug, parameters, r)
       IN  IF res # "ok" THEN Raise("append", 0, r, res)
           ELSE /\ Len(receivers) < MaxLen
                /\ receivers' = ListAppend(receivers, r)
                /\ last' = Outcome("append", 0, r, "ok", NoReceiver)
                /\ net' = net + 1
                /\ sends' = MarkMutated
    /\ UNCHANGED <<parameters, debug>>

clear_pop ==
    /\ ~Running
    /\ receivers' = SubSeq(receivers, 1, Len(receivers) - 1)
    /\ last' = Outcome("clear", 0, NoReceiver, "ok", NoReceiver)
    /\ net' = net - (Len(receivers) - Len(receivers'))
    /\ sends' = MarkMutated
    /\ UNCHANGED <<parameters, debug>>

clear ==
    /\ ~Running
    /\ receivers' = <<>>
    /\ last' = Outcome("clear", 0, NoReceiver, "ok", NoReceiver)
    /\ net' = net - Len(receivers)
    /\ sends' = MarkMutated
    /\ UNCHANGED <<parameters, debug>>

NextList ==
    \/ \E r \in Callables : append(r)
    \/ \E i \in Indexes, r \in Callables : insert(i, r)
    \/ \E i \in Indexes, r \in Callables : __setitem__(i, r)
    \/ \E i \in Indexes : __delitem__(i)
    \/ \E i \in Indexes : __getitem__(i)
    \/ clear

SpecList == Init /\ [][NextList]_vars

(***************************************************************************)
(* send: for receiver in self._receivers: yield from receiver( **kwargs)   *)
(***************************************************************************)
\* What a receiver, called with keyword arguments it can bind, does.  A plain
\* function runs its body at the call: it raises, or returns None (or another
\* value that cannot be iterated), or returns something "yield from" can
\* delegate to, which finishes at once or suspends the send.  A coroutine
\* function returns a coroutine object, whose body "yield from" then runs.
Behaviours(r) ==
    {<<"raise", e>> : e \in Excs}
        \cup {<<"finish", "none">>, <<"suspend", "none">>}
        \cup (IF iscoroutinefunction(r) THEN {} ELSE {<<"none", "none">>})

Call(rec, r, st, e) ==
    Append(rec.calls,
           [r |-> r, pos |-> rec.it, args |-> rec.kwargs, st |-> st, exc |-> e])

\* An exception leaves the for loop and the coroutine: send() has no handler.
PropagateSwallow(rec, e) == rec

Propagate(rec, e) == [rec EXCEPT !.pc = "raised", !.err = e]

\* The for loop takes its next step only when the coroutine runs, that is not
\* while "yield from" waits for what the previous receiver returned.
AtLoopOrWaiting(s) == sends[s].pc \in {"running", "suspended"}

AtLoop(s) == sends[s].pc = "running"

\* The position of the list iterator after next().
Advance(it) == it + 1

\* send( **kwargs) makes a coroutine that holds kwargs and, once it runs, an
\* iterator over self._receivers; nothing looks at self._parameters.
StartChecked(rec, kw, params) ==
    IF DOMAIN kw = params
    THEN [rec EXCEPT !.pc = "running", !.it = 0, !.kwargs = kw]
    ELSE [rec EXCEPT !.pc = "raised", !.it = 0, !.kwargs = kw,
                     !.err = "TypeError(arguments)"]

Start(rec, kw, params) ==
    [rec EXCEPT !.pc = "running", !.it = 0, !.kwargs = kw]

\* kwargs and the iterator are locals of one send() call: a step of one call
\* leaves every other call's record alone.
StepShared(s, rec) ==
    [t \in SendIds |->
        IF t = s THEN rec
        ELSE IF InFlight(t) THEN [sends[t] EXCEPT !.it = rec.it] ELSE sends[t]]

Step(s, rec) == [sends EXCEPT ![s] = rec]

\* The calls are numbered in the order they are made.
SendCall(s, kw) ==
    /\ ~Running
    /\ sends[s].pc = "new"
    /\ \A t \in SendIds : t < s => sends[t].pc # "new"
    /\ sends' = Step(s, Start(sends[s], kw, parameters))
    /\ UNCHANGED <<parameters, receivers, debug, last, net>>

SendInvoke(s) ==
    /\ AtLoop(s)
    /\ sends[s].it < Len(receivers)
    /\ LET r == receivers[sends[s].it + 1]
           rec == [sends[s] EXCEPT !.it = Advance(sends[s].it)]
       IN  IF ~Bind(r, DOMAIN rec.kwargs)
           THEN sends' = Step(s, Propagate(rec, "TypeError(arguments)"))
           ELSE \E b \in Behaviours(r) :
                  sends' = Step(s,
                    CASE b[1] = "raise" ->
                           Propagate([rec EXCEPT !.calls =
                                          Call(sends[s], r, "raised", b[2])], b[2])
                      [] b[1] = "none" ->
                           Propagate([rec EXCEPT !.calls =
                                          Call(sends[s], r, "completed", "none")],
                                     "TypeError(not iterable)")
                      [] b[1] = "finish" ->
                           [rec EXCEPT !.calls = Call(sends[s], r, "completed", "none")]
                      [] b[1] = "suspend" ->
                           [rec EXCEPT !.calls = Call(sends[s], r, "active", "none"),
                                       !.pc = "suspended"])
    /\ UNCHANGED <<parameters, receivers, debug, last, net>>

\* The event loop resumes the suspended send(): what it delegates to
\* finishes, or raises.
SendResume(s) ==
    /\ ~Running
    /\ sends[s].pc = "suspended"
    /\ LET n == Len(sends[s].calls)
       IN  \/ sends' = Step(s, [sends[s] EXCEPT !.calls[n].st = "completed",
                                                !.pc = "running"])
           \/ \E e \in Excs :
                sends' = Step(s, Propagate([sends[s] EXCEPT !.calls[n].st = "raised",
                                                            !.calls[n].exc = e], e))
    /\ UNCHANGED <<parameters, receivers, debug, last, net>>

\* The list iterator is exhausted: the for loop ends and send() returns.
SendReturnOnMutation(s) ==
    /\ AtLoop(s)
    /\ sends[s].it >= Len(receivers) \/ sends[s].mutated
    /\ sends' = Step(s, [sends[s] EXCEPT !.pc = "returned"])
    /\ UNCHANGED <<parameters, receivers, debug, last, net>>

SendReturnConsuming(s) ==
    /\ AtLoop(s)
    /\ sends[s].it >= Len(receivers)
    /\ sends' = Step(s, [sends[s] EXCEPT !.pc = "returned"])
    /\ receivers' = << >>
    /\ net' = 0
    /\ UNCHANGED <<parameters, debug, last>>

SendReturn(s) ==
    /\ AtLoop(s)
    /\ sends[s].it >= Len(receivers)
    /\ sends' = Step(s, [sends[s] EXCEPT !.pc = "returned"])
    /\ UNCHANGED <<parameters, receivers, debug, last, net>>

\* The callables the firing program connects (B, D and CB differ from these in
\* what the registration checks and the binding of the call make of them, not
\* in what send() does), and the receivers it disconnects: the first, the
\* last, and one that is not there.
Connected == {"A", "K", "CA"}

Disconnected == {0, 0 - 1, MaxLen}

NextSend(S) ==
    \/ \E s \in S, kw \in KwChoices : SendCall(s, kw)
    \/ \E s \in S : SendInvoke(s)
    \/ \E s \in S : SendResume(s)
    \/ \E s \in S : SendReturn(s)

\* The program that fires the signal: receivers are connected (append) and
\* disconnected (del, clear) at any time, also while a send() is suspended.
Next ==
    \/ \E r \in Connected : append(r)
    \/ \E i \in Disconnected : __delitem__(i)
    \/ clear
    \/ NextSend({1})

Spec == Init /\ [][Next]_vars

\* Several send() calls in flight at once on a Signal whose receivers were
\* connected before the first of them and are left alone afterwards.
NextConc ==
    \/ \E r \in Connected : append(r) /\ \A s \in SendIds : sends[s].pc = "new"
    \/ NextSend(SendIds)

SpecConc == Init /\ [][NextConc]_vars

\* Every operation of the Signal with one send(): the callables above are
\* appended, def a(name, value) is inserted and set, and the positions are
\* the first one and one out of bounds.
Positions == {0, MaxLen}

NextAll ==
    \/ \E r \in Connected : append(r)
    \/ \E i \in Positions : insert(i, "A")
    \/ \E i \in Positions : __setitem__(i, "A")
    \/ \E i \in Positions : __delitem__(i)
    \/ \E i \in Positions : __getitem__(i)
    \/ clear
    \/ NextSend({1})

SpecAll == Init /\ [][NextAll]_vars

\* Receivers are connected, a send() is called, and while it is in flight
\* receivers are disconnected (del signal[i], as the class docstring has it);
\* nothing else touches the Signal.
NextDisc ==
    \/ \E r \in Connected : append(r) /\ sends[1].pc = "new"
    \/ \E i \in Disconnected : __delitem__(i) /\ InFlight(1)
    \/ NextSend({1})

SpecDisc == Init /\ [][NextDisc]_vars

(***************************************************************************)
(* Properties of the list operations (SpecList: every step is one of them, *)
(* and last is its outcome)                                                *)
(***************************************************************************)
RegOps == {"append", "insert", "setitem"}

\* The receiver can be called with one keyword argument per recognized name
\* and nothing else.
Accepts(r) ==
    /\ \A p \in parameters : p \in Named(r) \/ VarKw(r)
    /\ Required(r) \subseteq parameters

\* The receiver passes the checks of the build.
Passes(r) == ~debug \/ (~iscoroutinefunction(r) /\ Accepts(r))

\* C4: append, insert and __setitem__ of a coroutine function fail with the
\* AssertionError, whatever its signature.
C4_CoroutineFunctionRejected ==
    (last.op \in RegOps /\ iscoroutinefunction(last.receiver))
        => last.result = "AssertionError"

\* C5, as stated: in the validating build append, insert and __setitem__ of a
\* callable that is no coroutine function succeed exactly when the callable
\* accepts the recognized names, and fail with the TypeError of bind otherwise.
C5_Original ==
    (debug /\ last.op \in RegOps /\ ~iscoroutinefunction(last.receiver))
        => /\ last.result = "ok" <=> Accepts(last.receiver)
           /\ last.result # "ok" => last.result = "TypeError"

\* C5, amended: the same for append, insert and __setitem__ at an index within
\* bounds, the receiver being stored on success; __setitem__ of an accepted
\* receiver at an index out of bounds fails with IndexError.
C5_SignatureDecides ==
    (debug /\ last.op \in RegOps /\ ~iscoroutinefunction(last.receiver))
        => LET r == last.receiver
               inb == last.op = "setitem" => ValidIndex(receivers, last.index)
           IN  /\ inb => /\ last.result = "ok" <=> Accepts(r)
                         /\ last.result # "ok" => last.result = "TypeError"
               /\ ~inb => last.result = (IF Accepts(r) THEN "IndexError"
                                                       ELSE "TypeError")
               /\ last.result = "ok" =>
                    CASE last.op = "append" -> receivers[Len(receivers)] = r
                      [] last.op = "insert" -> Contains(receivers, r)
                      [] last.op = "setitem" ->
                           receivers[NormIndex(receivers, last.index) + 1] = r

\* def b(name), which lacks the recognized "value", has just been rejected.
C5_Witness ==
    /\ debug
    /\ parameters = {"name", "value"}
    /\ last.op = "append"
    /\ last.receiver = "B"
    /\ last.result = "TypeError"
    /\ Len(receivers) = 2

\* C6: in the build without validation append, insert and __setitem__ of a
\* coroutine function still fail with the AssertionError and store nothing.
C6_OptimizedStillRejects ==
    (~debug /\ last.op \in RegOps /\ iscoroutinefunction(last.receiver))
        => /\ last.result = "AssertionError"
           /\ ~Contains(receivers, last.receiver)

\* C7: the receiver sequence is the reference list: its length is insertions
\* minus removals, every successful operation changes it as the operation on
\* a list does (insert before the position, later items up by one; delete,
\* later items down by one; append last), a failed one leaves it alone, and
\* iteration and reverse iteration give its order and the reverse of it.
RefPos(seq, i) == IF i < 0 THEN i + Len(seq) ELSE i

RefInsert(seq, i, x) ==
    LET q == RefPos(seq, i)
        p == IF q < 0 THEN 0 ELSE IF q > Len(seq) THEN Len(seq) ELSE q
    IN  SubSeq(seq, 1, p) \o <<x>> \o SubSeq(seq, p + 1, Len(seq))

RefDelete(seq, i) ==
    SubSeq(seq, 1, RefPos(seq, i)) \o SubSeq(seq, RefPos(seq, i) + 2, Len(seq))

RefSet(seq, i, x) ==
    SubSeq(seq, 1, RefPos(seq, i)) \o <<x>>
        \o SubSeq(seq, RefPos(seq, i) + 2, Len(seq))

C7_State ==
    /\ Len(receivers) = net
    /\ Iter(receivers) = receivers
    /\ Reversed(receivers) =
         [k \in 1 .. Len(receivers) |-> receivers[Len(receivers) + 1 - k]]

C7_Step ==
    IF last'.result # "ok" THEN receivers' = receivers
    ELSE CASE last'.op = "append" -> receivers' = receivers \o <<last'.receiver>>
           [] last'.op = "insert" ->
                receivers' = RefInsert(receivers, last'.index, last'.receiver)
           [] last'.op = "setitem" ->
                receivers' = RefSet(receivers, last'.index, last'.receiver)
           [] last'.op = "delitem" -> receivers' = RefDelete(receivers, last'.index)
           [] last'.op = "clear" -> receivers' = <<>>
           [] OTHER -> receivers' = receivers

\* C7: the state part in every state, the step part at every step.
C7_ReferenceList == [](C7_State) /\ [][C7_Step]_vars

\* insert(1, r) has put r between two different receivers.
C7_Witness ==
    /\ last.op = "insert" /\ last.result = "ok" /\ last.index = 1
    /\ Len(receivers) = 3
    /\ receivers[2] = last.receiver
    /\ receivers[1] # receivers[3]
    /\ receivers[1] # receivers[2]

\* C9, as stated: __getitem__, __setitem__ and __delitem__ with an index out
\* of bounds fail with IndexError and leave the sequence unchanged.
C9_OriginalStep ==
    (last'.op \in {"getitem", "setitem", "delitem"}
        /\ ~ValidIndex(receivers, last'.index))
        => last'.result = "IndexError" /\ receivers' = receivers

\* C9, as stated, at every step.
C9_Original == [][C9_OriginalStep]_vars

\* C9, amended: so do __getitem__ and __delitem__, and __setitem__ of a
\* receiver that passes the checks; __setitem__ of a receiver that fails them
\* fails with the check's error, whatever the index; the sequence is
\* unchanged in each case.
C9_Step ==
    (last'.op \in {"getitem", "setitem", "delitem"}
        /\ ~ValidIndex(receivers, last'.index))
        => /\ receivers' = receivers
           /\ IF last'.op = "setitem" /\ ~Passes(last'.receiver)
              THEN last'.result \in {"AssertionError", "TypeError"}
              ELSE last'.result = "IndexError"

\* C9, amended, at every step.
C9_IndexOutOfRange == [][C9_Step]_vars

\* del signal[i] with i out of the bounds of a non-empty sequence has failed.
C9_Witness ==
    /\ last.op = "delitem"
    /\ last.result = "IndexError"
    /\ Len(receivers) = 2

\* C12: __setitem__(i, r) that succeeds keeps the length and every other
\* item, and __getitem__(i) made right after it returns r.
C12_Step ==
    /\ (last'.op = "setitem" /\ last'.result = "ok")
          => /\ Len(receivers') = Len(receivers)
             /\ \A k \in 1 .. Len(receivers) :
                    k # RefPos(receivers, last'.index) + 1
                        => receivers'[k] = receivers[k]
    /\ (last.op = "setitem" /\ last.result = "ok"
           /\ last'.op = "getitem" /\ last'.index = last.index)
          => last'.result = "ok" /\ last'.value = last.receiver

\* C12 at every step.
C12_SetThenGet == [][C12_Step]_vars

\* signal[1] = r has replaced the middle one of three receivers by another.
C12_Witness ==
    /\ last.op = "setitem" /\ last.result = "ok" /\ last.index = 1
    /\ Len(receivers) = 3
    /\ receivers[2] = last.receiver
    /\ receivers[1] # last.receiver
    /\ receivers[3] # last.receiver

(***************************************************************************)
(* Properties of send                                                      *)
(***************************************************************************)
Settled(s) == sends[s].pc \in {"returned", "raised"}

\* The receivers whose bodies a send() has run, in the order it ran them.
Invoked(s) == [k \in 1 .. Len(sends[s].calls) |-> sends[s].calls[k].r]

AllCompleted(s) ==
    \A k \in 1 .. Len(sends[s].calls) : sends[s].calls[k].st = "completed"

\* The failures that come from a receiver: its body raised, or the call could
\* not bind the keyword arguments to its parameters.
ReceiverFailures == Excs \cup {"TypeError(arguments)"}

\* C1: a send() on a Signal whose receivers are left alone, none of which
\* raises, returns after having invoked every receiver exactly once, in the
\* order of the sequence.  Stated of the validating build, where every stored
\* receiver has passed the registration checks, and under SpecConc, where the
\* sequence is fixed once the first send() is called.
C1_SendInvokesAll ==
    \A s \in SendIds :
        (debug /\ Settled(s) /\ sends[s].err \notin ReceiverFailures)
            => /\ sends[s].pc = "returned"
               /\ Invoked(s) = receivers
               /\ AllCompleted(s)

\* C2: when a receiver raises, send() ends with that very exception, the
\* raising receiver is the last one it invoked, and what the earlier receivers
\* did stays: their calls stay recorded as completed and are never undone.
C2_State ==
    \A s \in SendIds :
        LET c == sends[s].calls
        IN  /\ \A k \in 1 .. Len(c) :
                 c[k].st = "raised"
                    => /\ k = Len(c)
                       /\ sends[s].pc = "raised"
                       /\ sends[s].err = c[k].exc
            /\ sends[s].pc = "raised"
                 => /\ \A k \in 1 .. Len(c) :
                         /\ c[k].pos < sends[s].it
                         /\ k < Len(c) => c[k].st = "completed"
                    /\ sends[s].err \in Excs
                         => Len(c) > 0 /\ c[Len(c)].exc = sends[s].err

C2_Step ==
    \A s \in SendIds :
        /\ sends[s].pc = "raised" => sends'[s] = sends[s]
        /\ Len(sends'[s].calls) >= Len(sends[s].calls)
        /\ \A k \in 1 .. Len(sends[s].calls) - 1 :
               sends'[s].calls[k] = sends[s].calls[k]

\* C2: the state part in every state, the step part at every step.
C2_FailurePropagates == [](C2_State) /\ [][C2_Step]_vars

\* Receiver #2 of 3 raised: send() ended with its exception, #3 not invoked.
C2_Witness ==
    \E s \in SendIds :
        /\ sends[s].pc = "raised"
        /\ sends[s].err \in Excs
        /\ ~sends[s].mutated
        /\ Len(receivers) = 3
        /\ sends[s].it = 2
        /\ Len(sends[s].calls) = 2
        /\ sends[s].calls[1].st = "completed"

\* C3: within one send() at most one receiver has started and not finished,
\* it is the latest one invoked, and the send() is waiting for it.
C3_NoOverlap ==
    \A s \in SendIds :
        LET c == sends[s].calls
        IN  /\ Cardinality({k \in 1 .. Len(c) : c[k].st = "active"}) <= 1
            /\ \A k \in 1 .. Len(c) :
                 c[k].st = "active" => k = Len(c) /\ sends[s].pc = "suspended"

\* The second receiver runs, suspended, after the first has completed.
C3_Witness ==
    \E s \in SendIds :
        /\ Len(sends[s].calls) = 2
        /\ sends[s].calls[1].st = "completed"
        /\ sends[s].calls[2].st = "active"

\* C8: every receiver a send() invokes gets the keyword arguments the send()
\* was called with, and send() never fails ahead of its first receiver:
\* nothing compares the argument names with the Signal's parameters.
C8_ArgumentsPassedUnchecked ==
    \A s \in SendIds :
        /\ \A k \in 1 .. Len(sends[s].calls) :
               sends[s].calls[k].args = sends[s].kwargs
        /\ sends[s].pc = "raised" => sends[s].it >= 1
        /\ sends[s].err = "TypeError(arguments)"
             => /\ sends[s].pc = "raised"
                /\ Len(sends[s].calls) = sends[s].it - 1

\* A send() whose argument names are not the Signal's parameters has invoked
\* two receivers and returned.
C8_Witness ==
    \E s \in SendIds :
        /\ DOMAIN sends[s].kwargs # parameters
        /\ sends[s].pc = "returned"
        /\ Len(sends[s].calls) = 2

\* C10: with several send() calls in flight and no mutation, each call runs
\* the receivers at positions 0, 1, 2, ... of the sequence, one each, whatever
\* the other calls do, a call that returns has run them all, and a step of one
\* call changes nothing of another call.
C10_State ==
    \A s \in SendIds :
        LET c == sends[s].calls
        IN  /\ Len(c) <= Len(receivers)
            /\ \A k \in 1 .. Len(c) :
                 c[k].pos = k - 1 /\ c[k].r = receivers[k]
            /\ Len(c) <= sends[s].it /\ sends[s].it <= Len(c) + 1
            /\ sends[s].pc = "returned"
                 => Invoked(s) = receivers /\ AllCompleted(s)

C10_Step ==
    \A s, t \in SendIds :
        (s # t /\ sends'[s] # sends[s]) => sends'[t] = sends[t]

SendFair(s) == WF_vars(SendInvoke(s) \/ SendResume(s) \/ SendReturn(s))

SpecConcFair == SpecConc /\ \A s \in SendIds : SendFair(s)

\* C11, the termination half: every send() that was called settles.
C11_Settles == \A s \in SendIds : (sends[s].pc # "new") ~> Settled(s)

\* C11: a send() on a Signal left alone settles in one of two ways: returned,
\* every receiver invoked and completed, or raised with the failure of the
\* receiver it stopped at, the earlier ones completed.  (Stated of the
\* validating build.)
C11_SettlesOneOfTwoWays ==
    \A s \in SendIds :
        (debug /\ Settled(s))
            => \/ /\ sends[s].pc = "returned"
                  /\ Invoked(s) = receivers
                  /\ AllCompleted(s)
               \/ /\ sends[s].pc = "raised"
                  /\ sends[s].err \in ReceiverFailures
                  /\ \A k \in 1 .. Len(sends[s].calls) - 1 :
                         sends[s].calls[k].st = "completed"

\* C13: after clear() the sequence is empty, and a send() called while clear()
\* is the latest list operation goes from its start straight to its return:
\* no receiver invoked, no failure, no suspension.
C13_State == last.op = "clear" => Len(receivers) = 0

C13_Step ==
    \A s \in SendIds :
        (last.op = "clear" /\ sends[s].pc = "running" /\ sends[s].it = 0
            /\ sends'[s] # sends[s])
            => /\ sends'[s].pc = "returned"
               /\ sends'[s].calls = <<>>
               /\ sends'[s].err = "none"

\* C13: the state part in every state, the step part at every step.
C13_ClearThenSend == [](C13_State) /\ [][C13_Step]_vars

\* A send() has returned without a call, clear() being the latest operation.
C13_Witness ==
    /\ last.op = "clear"
    /\ sends[1].pc = "returned"
    /\ sends[1].calls = <<>>
    /\ ~sends[1].mutated

\* C14: no operation, successful or failing, changes the parameter set the
\* Signal was constructed with.
C14_ParametersFixed == [][parameters' = parameters]_vars

\* A registration has failed, and a send() has failed, on a non-empty Signal.
C14_Witness ==
    /\ last.result = "TypeError"
    /\ last.op = "setitem"
    /\ sends[1].pc = "raised"
    /\ Len(receivers) = 2

Count(seq, r) == Cardinality({k \in 1 .. Len(seq) : seq[k] = r})

\* C15: a send() that returns has invoked every receiver that was registered
\* from its start to its end, also when receivers were disconnected while it
\* was in flight.  Under SpecDisc the receivers left when the send() returns
\* are those that stayed registered throughout, so each of them is among the
\* receivers invoked, as often as it is registered.  (Stated of the validating
\* build.)
C15_RemainingReceiversInvoked ==
    (debug /\ sends[1].pc = "returned")
        => \A r \in Callables : Count(receivers, r) <= Count(Invoked(1), r)

\* C16: send() walks the live list by position.  A step of its loop, with the
\* iterator at position k, calls the receiver that is at position k of the
\* list at that moment and moves to k+1, or, when k is at or past the length
\* of the list at that moment, returns; waiting for a receiver moves nothing.
\* So a receiver appended in flight is called when the loop reaches the last
\* position right after the append, and the loop step that follows a clear()
\* returns.
C16_LoopStep(s) ==
    LET k == sends[s].it
        c == sends[s].calls
    IN  IF k < Len(receivers)
        THEN /\ sends'[s].it = k + 1
             /\ IF Bind(receivers[k + 1], DOMAIN sends[s].kwargs)
                THEN /\ Len(sends'[s].calls) = Len(c) + 1
                     /\ sends'[s].calls[Len(c) + 1].r = receivers[k + 1]
                     /\ sends'[s].calls[Len(c) + 1].pos = k
                ELSE /\ sends'[s].calls = c
                     /\ sends'[s].pc = "raised"
        ELSE /\ sends'[s].pc = "returned"
             /\ sends'[s].it = k
             /\ sends'[s].calls = c

C16_Step ==
    \A s \in SendIds :
        /\ (sends[s].pc = "running" /\ sends'[s] # sends[s]) => C16_LoopStep(s)
        /\ (sends[s].pc = "suspended" /\ sends'[s] # sends[s])
              => /\ sends'[s].it = sends[s].it
                 /\ Len(sends'[s].calls) = Len(sends[s].calls)
        /\ (sends[s].pc = "running" /\ sends'[s] # sends[s]
               /\ sends[s].mutated /\ last.result = "ok")
              => /\ (last.op = "clear" => sends'[s].pc = "returned")
                 /\ (last.op = "append" /\ sends[s].it = Len(receivers) - 1
                        /\ Bind(last.receiver, DOMAIN sends[s].kwargs))
                       => sends'[s].calls[Len(sends'[s].calls)].r = last.receiver

\* C16 as stated goes further: whenever a send() settles and the last list
\* operation was an append made while it was in flight, the send() has called
\* the appended receiver, which sits at the last position.
C16_AppendedInvoked ==
    \A s \in SendIds :
        (/\ InFlight(s) /\ sends[s].mutated
         /\ last.op = "append" /\ last.result = "ok"
         /\ Settled(s)')
            => \E k \in 1 .. Len(sends'[s].calls) :
                   /\ sends'[s].calls[k].r = last.receiver
                   /\ sends'[s].calls[k].pos = Len(receivers) - 1

C17_Step ==
    (last'.op \in RegOps /\ last'.result \in {"AssertionError", "TypeError"})
        => receivers' = receivers

\* C17 at every step.
C17_FailedRegistrationChangesNothing == [][C17_Step]_vars

\* An item assignment has just been refused on a Signal that has two receivers.
C17_Witness ==
    /\ last.op = "setitem"
    /\ last.result \in {"AssertionError", "TypeError"}
    /\ Len(receivers) = 2

C19_State ==
    \A s, t \in SendIds :
        LET a == Invoked(s)
            b == Invoked(t)
        IN  /\ Len(a) <= Len(b) => a = SubSeq(b, 1, Len(a))
            /\ sends[s].pc = "returned" => a = receivers

C19_Step == sends' # sends => (receivers' = receivers /\ net' = net)

\* C19: the state part in every state, the step part at every step.
C19_SendLeavesReceivers == [](C19_State) /\ [][C19_Step]_vars

\* One send() has failed in the second receiver and the next one has returned
\* after running the same three receivers that are still connected.
C19_Witness ==
    /\ Len(receivers) = 3
    /\ sends[1].pc = "raised" /\ Len(sends[1].calls) = 2
    /\ sends[2].pc = "returned" /\ Invoked(2) = receivers

====
